---- MODULE Spec2Model ----
(***************************************************************************)
(* Model of sparqlkernel/install.py: the splice of the kernel CSS into the *)
(* notebook's custom.css (install_custom_css), its removal                 *)
(* (remove_custom_css), the two commands that call them                    *)
(* (SparqlKernelInstall.start, SparqlKernelRemove.start) and the copy of   *)
(* the kernel resources (install_kernel_resources).                        *)
(*                                                                         *)
(* A file is a sequence of tokens.  "P" is the string returned by          *)
(* css_frame_prefix(PKGNAME); "START" and "END" are the texts              *)
(* 'START ======================== */' and 'END ======================== */'*)
(* written after it; "NL" and "CR" are the characters \n and \r; "x" is    *)
(* any other text.  Files are opened in text mode with the default         *)
(* newline argument, on a POSIX host (os.linesep is \n, os.rename replaces  *)
(* an existing destination atomically).                                    *)
(***************************************************************************)
EXTENDS Integers, Sequences, FiniteSets, TLC

\* ------------------------------------------------------------------ bounds
MaxLines == 2
MaxFrag == 2
MaxFiles == 2

\* --------------------------------------------------------------- constants
\* The value of a path that names no file (open() raises FileNotFoundError,
\* os.path.exists() is False); no file content holds this token.
Absent == <<"ENOENT">>
Dirs == {"user", "system"}
FileNames == {"logo-64x64.png", "logo-32x32.png", "other.png"}
DefaultFiles == <<"logo-64x64.png", "logo-32x32.png">>
LineSep == <<"NL">>

VARIABLES css, scratch, frag, pc, dir, found, before, hist, cmd, done,
          files, idx, dest, results, errlog, rpc

cssVars == <<css, scratch, frag, pc, dir, found, before, hist, cmd, done>>
resVars == <<files, idx, dest, results, errlog, rpc>>
vars == <<css, scratch, frag, pc, dir, found, before, hist, cmd, done,
          files, idx, dest, results, errlog, rpc>>

\* ------------------------------------------------------------ text helpers
css_frame_prefix == <<"P">>
StartLine == css_frame_prefix \o <<"START", "NL">>
EndLine == css_frame_prefix \o <<"END", "NL">>

RECURSIVE Flatten(_)
Flatten(ls) == IF ls = <<>> THEN <<>> ELSE Head(ls) \o Flatten(Tail(ls))

\* Reading in text mode: "\r\n" and a lone "\r" both arrive as "\n".
RECURSIVE Decode(_)
Decode(c) ==
    IF c = <<>> THEN <<>>
    ELSE IF Head(c) = "CR"
         THEN IF Len(c) >= 2 /\ c[2] = "NL"
                 THEN <<"NL">> \o Decode(Tail(Tail(c)))
                 ELSE <<"NL">> \o Decode(Tail(c))
         ELSE <<Head(c)>> \o Decode(Tail(c))

\* Writing in text mode: "\n" leaves as os.linesep.
RECURSIVE Encode(_)
Encode(t) ==
    IF t = <<>> THEN <<>>
    ELSE (IF Head(t) = "NL" THEN LineSep ELSE <<Head(t)>>) \o Encode(Tail(t))

\* Iterating over text yields lines that keep their "\n"; the last line may
\* lack one.
RECURSIVE SplitFrom(_, _)
SplitFrom(t, cur) ==
    IF t = <<>> THEN (IF cur = <<>> THEN <<>> ELSE <<cur>>)
    ELSE IF Head(t) = "NL"
         THEN <<Append(cur, "NL")>> \o SplitFrom(Tail(t), <<>>)
         ELSE SplitFrom(Tail(t), Append(cur, Head(t)))

ReadLines(c) == SplitFrom(Decode(c), <<>>)

StartsWith(line, p) == Len(line) >= Len(p) /\ SubSeq(line, 1, Len(p)) = p

Find(line, p) ==
    \E i \in 1..Len(line) : i + Len(p) - 1 <= Len(line)
                            /\ SubSeq(line, i, i + Len(p) - 1) = p

IsStart(line) == StartsWith(line, css_frame_prefix \o <<"START">>)
IsEnd(line) == StartsWith(line, css_frame_prefix \o <<"END">>)

\* Variant: the scan for the prefix is left out.
AlreadyInstalledNoScan(c) == FALSE

\* Variant: only the first line is searched for the prefix.
AlreadyInstalledFirstLine(c) ==
    c # Absent /\ ReadLines(c) # <<>> /\ Find(ReadLines(c)[1], css_frame_prefix)

AlreadyInstalled(c) ==
    c # Absent /\ LET ls == ReadLines(c) IN \E i \in 1..Len(ls) : Find(ls[i], css_frame_prefix)

\* The loop of remove_custom_css: [out, copy, found] after the given lines.
RECURSIVE RemoveLoop(_, _)
RemoveLoop(ls, st) ==
    IF ls = <<>> THEN st
    ELSE LET line == Head(ls) IN
         RemoveLoop(Tail(ls),
            IF IsStart(line) THEN [st EXCEPT !.copy = FALSE, !.found = TRUE]
            ELSE IF IsEnd(line) THEN [st EXCEPT !.copy = TRUE]
            ELSE IF st.copy THEN [st EXCEPT !.out = st.out \o Encode(line)]
            ELSE st)

RemoveScanResult(c) == RemoveLoop(ReadLines(c), [out |-> <<>>, copy |-> TRUE, found |-> FALSE])

\* ------------------------------------------------------------- input sets
RECURSIVE SeqsUpTo(_, _)
SeqsUpTo(S, n) ==
    IF n = 0 THEN {<<>>}
    ELSE LET R == SeqsUpTo(S, n - 1) IN
         R \cup {Append(s, e) : s \in {r \in R : Len(r) = n - 1}, e \in S}

LineSet == { <<"x", "NL">>, StartLine, EndLine,
             <<"x", "P", "NL">>, <<"x", "CR", "NL">> }
TailSet == { <<>>, <<"x">>, <<"x", "CR">> }
Contents == { Flatten(ls) \o t : ls \in SeqsUpTo(LineSet, MaxLines), t \in TailSet }
Frags == SeqsUpTo({"x", "NL"}, MaxFrag)
FileLists == { fl \in SeqsUpTo(FileNames, MaxFiles) :
                 \A i, j \in 1..Len(fl) : i # j => fl[i] # fl[j] }

\* ---------------------------------------------------------------- history
Push(h, e) == IF Len(h) < 3 THEN Append(h, e) ELSE Append(Tail(h), e)
Push2(h, e) == IF Len(h) < 2 THEN Append(h, e) ELSE Append(Tail(h), e)
Last(h) == h[Len(h)]

\* A call of install_custom_css / remove_custom_css ends: record it and go
\* back to the caller (the command c, or nobody).
Return(c, d, op, outcome, value, b, a) ==
    /\ hist' = Push(hist, [op |-> op, dir |-> d, outcome |-> outcome,
                           value |-> value, before |-> b, after |-> a])
    /\ IF c = "remove_user" /\ outcome = "return"
          THEN /\ cmd' = "remove_system"
               /\ pc' = "r_call"
               /\ done' = done
          ELSE /\ cmd' = "none"
               /\ pc' = "idle"
               /\ done' = IF c = "none" THEN done
                          ELSE Push2(done,
                                 [cmd |-> IF c = "install" THEN "install" ELSE "remove",
                                  scope |-> IF c = "install" THEN d ELSE "both",
                                  spliced |-> (c = "install" /\ a # b),
                                  outcome |-> IF outcome = "return" THEN "ok" ELSE "error"])

\* ------------------------------------------------------ install_custom_css
\* ensure_dir_exists, then the scan for the prefix.
InstallCheckBody(c, d) ==
    /\ dir' = d
    /\ before' = css[d]
    /\ IF AlreadyInstalled(css[d])
          THEN Return(c, d, "install", "return", "None", css[d], css[d])
          ELSE /\ pc' = "i_open"
               /\ cmd' = c
               /\ UNCHANGED <<hist, done>>
    /\ UNCHANGED <<css, scratch, frag, found, resVars>>

install_custom_css(d) ==
    /\ pc = "idle" /\ cmd = "none"
    /\ InstallCheckBody("none", d)

InstallOpen ==
    /\ pc = "i_open"
    /\ scratch' = [scratch EXCEPT ![dir] = <<>>]
    /\ pc' = "i_write"
    /\ UNCHANGED <<css, frag, dir, found, before, hist, cmd, done, resVars>>

\* Variant: the block is written into custom.css itself.
InstallWriteInPlace ==
    /\ pc = "i_write"
    /\ css' = [css EXCEPT ![dir] =
                 Encode(css_frame_prefix) \o Encode(<<"START", "NL">>)
                   \o Encode(frag)
                   \o Encode(css_frame_prefix) \o Encode(<<"END", "NL">>)]
    /\ pc' = "i_copy"
    /\ UNCHANGED <<scratch, frag, dir, found, before, hist, cmd, done, resVars>>

InstallWrite ==
    /\ pc = "i_write"
    /\ scratch' = [scratch EXCEPT ![dir] =
                     @ \o Encode(css_frame_prefix) \o Encode(<<"START", "NL">>)
                       \o Encode(frag)
                       \o Encode(css_frame_prefix) \o Encode(<<"END", "NL">>)]
    /\ pc' = "i_copy"
    /\ UNCHANGED <<css, frag, dir, found, before, hist, cmd, done, resVars>>

\* Variant: the original custom.css is not copied behind the block.
InstallCopyDropsOriginal ==
    /\ pc = "i_copy"
    /\ pc' = "i_rename"
    /\ UNCHANGED <<css, scratch, frag, dir, found, before, hist, cmd, done, resVars>>

InstallCopy ==
    /\ pc = "i_copy"
    /\ scratch' = [scratch EXCEPT ![dir] =
                     IF css[dir] # Absent
                        THEN @ \o Flatten([i \in 1..Len(ReadLines(css[dir])) |->
                                             Encode(ReadLines(css[dir])[i])])
                        ELSE @]
    /\ pc' = "i_rename"
    /\ UNCHANGED <<css, frag, dir, found, before, hist, cmd, done, resVars>>

InstallRename ==
    /\ pc = "i_rename"
    /\ css' = [css EXCEPT ![dir] = scratch[dir]]
    /\ scratch' = [scratch EXCEPT ![dir] = Absent]
    /\ Return(cmd, dir, "install", "return", "None", before, scratch[dir])
    /\ UNCHANGED <<frag, dir, found, before, resVars>>

\* ------------------------------------------------------- remove_custom_css
\* Open custom.css-new for writing, then custom.css for reading.
RemoveOpenBody(c, d) ==
    /\ dir' = d
    /\ before' = css[d]
    /\ scratch' = [scratch EXCEPT ![d] = <<>>]
    /\ IF css[d] = Absent
          THEN Return(c, d, "remove", "raise", "FileNotFoundError", css[d], css[d])
          ELSE /\ pc' = "r_scan"
               /\ cmd' = c
               /\ UNCHANGED <<hist, done>>
    /\ UNCHANGED <<css, frag, found, resVars>>

remove_custom_css(d) ==
    /\ pc = "idle" /\ cmd = "none"
    /\ RemoveOpenBody("none", d)

RemoveScan ==
    /\ pc = "r_scan"
    /\ scratch' = [scratch EXCEPT ![dir] = @ \o RemoveScanResult(css[dir]).out]
    /\ found' = RemoveScanResult(css[dir]).found
    /\ pc' = "r_finish"
    /\ UNCHANGED <<css, frag, dir, before, hist, cmd, done, resVars>>

RemoveReturnValue(f) == "True"

RemoveFinish ==
    /\ pc = "r_finish"
    /\ css' = IF found THEN [css EXCEPT ![dir] = scratch[dir]] ELSE css
    /\ scratch' = [scratch EXCEPT ![dir] = Absent]
    /\ Return(cmd, dir, "remove", "return", RemoveReturnValue(found), before,
              IF found THEN scratch[dir] ELSE css[dir])
    /\ UNCHANGED <<frag, dir, found, before, resVars>>

\* ---------------------------------------------------------------- commands
\* SparqlKernelInstall.start: kernel.json and the resources go to a temporary
\* directory that the host framework's install_kernel_spec copies and that is
\* deleted on leaving the with block; then the CSS goes to the custom
\* directory of the chosen scope.
SparqlKernelInstall_start(user, prefix) ==
    /\ pc = "idle" /\ cmd = "none"
    /\ IF user /\ prefix
          THEN /\ done' = Push2(done, [cmd |-> "install", scope |-> "none",
                                       spliced |-> FALSE, outcome |-> "exit"])
               /\ UNCHANGED <<css, scratch, frag, pc, dir, found, before, hist,
                              cmd, resVars>>
          ELSE InstallCheckBody("install", IF user THEN "user" ELSE "system")

\* SparqlKernelRemove.start: the user custom directory first ...
SparqlKernelRemove_start ==
    /\ pc = "idle" /\ cmd = "none"
    /\ RemoveOpenBody("remove_user", "user")

\* ... then, once that call has returned, the system custom directory.
SparqlKernelRemove_system ==
    /\ pc = "r_call" /\ cmd = "remove_system"
    /\ RemoveOpenBody("remove_system", "system")

\* The process is interrupted inside install_custom_css or remove_custom_css.
Crash ==
    /\ pc \in {"i_open", "i_write", "i_copy", "i_rename", "r_scan", "r_finish"}
    /\ Return(cmd, dir, IF pc \in {"r_scan", "r_finish"} THEN "remove" ELSE "install",
              "crash", "None", before, css[dir])
    /\ UNCHANGED <<css, scratch, frag, dir, found, before, resVars>>

\* ------------------------------------------------ install_kernel_resources
install_kernel_resources(useDefault, fl) ==
    /\ rpc \in {"idle", "returned"}
    /\ files' = IF useDefault THEN DefaultFiles ELSE fl
    /\ idx' = 1
    /\ results' = <<>>
    /\ errlog' = <<>>
    /\ rpc' = "loop"
    /\ UNCHANGED <<dest, cssVars>>

\* copyresource runs to its end for files[idx].
CopyOk ==
    /\ rpc = "loop" /\ idx <= Len(files)
    /\ dest' = [dest EXCEPT ![files[idx]] = "new"]
    /\ results' = Append(results, "ok")
    /\ idx' = idx + 1
    /\ UNCHANGED <<files, errlog, rpc, cssVars>>

\* Variant: the exception of copyresource leaves install_kernel_resources.
Propagated(f) ==
    /\ errlog' = errlog
    /\ idx' = idx
    /\ rpc' = "raised"

\* What install_kernel_resources does with an exception of copyresource.
Caught(f) ==
    /\ errlog' = Append(errlog, f)
    /\ idx' = idx + 1
    /\ rpc' = rpc

\* copyresource raises in pkgutil.get_data or in open: no file is touched.
CopyFailEarly ==
    /\ rpc = "loop" /\ idx <= Len(files)
    /\ results' = Append(results, "failed")
    /\ Caught(files[idx])
    /\ UNCHANGED <<files, dest, cssVars>>

\* copyresource raises in fp.write: the file was opened (truncated) already.
CopyFailWrite ==
    /\ rpc = "loop" /\ idx <= Len(files)
    /\ dest' = [dest EXCEPT ![files[idx]] = "partial"]
    /\ results' = Append(results, "failed")
    /\ Caught(files[idx])
    /\ UNCHANGED <<files, cssVars>>

ResourcesReturn ==
    /\ rpc = "loop" /\ idx > Len(files)
    /\ rpc' = "returned"
    /\ UNCHANGED <<files, idx, dest, results, errlog, cssVars>>

\* ----------------------------------------------------------------- states
InitRes ==
    /\ files = <<>>
    /\ idx = 1
    /\ dest = [f \in FileNames |-> "absent"]
    /\ results = <<>>
    /\ errlog = <<>>
    /\ rpc = "idle"

InitCss ==
    /\ scratch = [d \in Dirs |-> Absent]
    /\ frag \in Frags
    /\ pc = "idle"
    /\ dir = "user"
    /\ found = FALSE
    /\ before = Absent
    /\ hist = <<>>
    /\ cmd = "none"
    /\ done = <<>>

\* The calls of the two functions on one custom directory.
Init ==
    /\ css \in [Dirs -> Contents \cup {Absent}]
    /\ css["system"] = Absent
    /\ InitCss
    /\ InitRes

Next ==
    \/ install_custom_css("user")
    \/ InstallOpen
    \/ InstallWrite
    \/ InstallCopy
    \/ InstallRename
    \/ remove_custom_css("user")
    \/ RemoveScan
    \/ RemoveFinish

Spec == Init /\ [][Next]_vars

\* The same calls, interrupted at any step.
NextCrash ==
    \/ Next
    \/ Crash

SpecCrash == Init /\ [][NextCrash]_vars

\* The two commands, on the custom directories of both scopes.
CmdContents == SeqsUpTo({"x"}, 1) \cup LineSet

InitCmd ==
    /\ css \in [Dirs -> CmdContents \cup {Absent}]
    /\ InitCss
    /\ InitRes

NextCmd ==
    \/ \E user, prefix \in BOOLEAN : SparqlKernelInstall_start(user, prefix)
    \/ SparqlKernelRemove_start
    \/ SparqlKernelRemove_system
    \/ InstallOpen
    \/ InstallWrite
    \/ InstallCopy
    \/ InstallRename
    \/ RemoveScan
    \/ RemoveFinish

SpecCmd == InitCmd /\ [][NextCmd]_vars

\* The copy of the kernel resources into a destination directory.
InitResources ==
    /\ css = [d \in Dirs |-> Absent]
    /\ InitCss
    /\ frag = <<>>
    /\ files = <<>>
    /\ idx = 1
    /\ dest \in [FileNames -> {"absent", "old"}]
    /\ results = <<>>
    /\ errlog = <<>>
    /\ rpc = "idle"

NextRes ==
    \/ \E fl \in FileLists : \E useDefault \in BOOLEAN : install_kernel_resources(useDefault, fl)
    \/ CopyOk
    \/ CopyFailEarly
    \/ CopyFailWrite
    \/ ResourcesReturn

SpecRes == InitResources /\ [][NextRes]_vars

\* ================================================================= claims
Returned(e, op) == e.op = op /\ e.outcome = "return"
NumLines(c, Is(_)) ==
    IF c = Absent THEN 0
    ELSE LET ls == ReadLines(c) IN Cardinality({i \in 1..Len(ls) : Is(ls[i])})
HasBlock(c) == NumLines(c, IsStart) > 0
AtMostOneBlock(c) == NumLines(c, IsStart) <= 1 /\ NumLines(c, IsEnd) <= 1
TextOf(c) == IF c = Absent THEN <<>> ELSE Decode(c)

\* C1: a second install_custom_css call right after a first one leaves
\* custom.css with exactly the content the first call produced.
C1_InstallTwiceIdempotent ==
    \A i \in 1..Len(hist) - 1 :
        Returned(hist[i], "install") /\ Returned(hist[i + 1], "install")
        => /\ hist[i + 1].before = hist[i].after
           /\ hist[i + 1].after = hist[i].after

\* C1 witness: the first of two consecutive installs spliced the block in.
C1_Witness ==
    /\ Len(hist) >= 2 /\ pc = "idle"
    /\ Returned(hist[Len(hist) - 1], "install") /\ Returned(Last(hist), "install")
    /\ hist[Len(hist) - 1].before # hist[Len(hist) - 1].after
    /\ css[Last(hist).dir] = hist[Len(hist) - 1].after

\* C2 (as claimed): remove, install, remove leaves custom.css with the line
\* sequence it had immediately before the install.
C2_RemoveInstallRemoveRestores ==
    Len(hist) = 3 /\ Returned(hist[1], "remove") /\ Returned(hist[2], "install")
                  /\ Returned(hist[3], "remove")
    => ReadLines(TextOf(hist[3].after)) = ReadLines(TextOf(hist[2].before))

\* C3 (as claimed): removal on a custom.css without a start sentinel returns
\* a result other than that of a successful removal and leaves the content.
C3_NotFoundReported ==
    \A i \in 1..Len(hist) :
        Returned(hist[i], "remove") /\ ~HasBlock(hist[i].before)
        => hist[i].value # "True" /\ hist[i].after = hist[i].before

\* C4: an install into a custom.css without the package tag yields the start
\* sentinel line, the fragment, the end sentinel line, then the lines of the
\* original file in order (none, when the file did not exist).
C4_InstallLayout ==
    \A i \in 1..Len(hist) :
        Returned(hist[i], "install") /\ ~AlreadyInstalled(hist[i].before)
        => /\ hist[i].after # Absent
           /\ ReadLines(hist[i].after)
                = ReadLines(StartLine \o frag \o EndLine \o TextOf(hist[i].before))
           /\ Decode(hist[i].after) = StartLine \o frag \o EndLine \o TextOf(hist[i].before)

\* C4 witness: an install into an existing, non-empty custom.css without the
\* tag has returned, with a non-empty fragment.
C4_Witness ==
    /\ hist # <<>> /\ pc = "idle"
    /\ Returned(Last(hist), "install")
    /\ Last(hist).before \notin {Absent, <<>>}
    /\ ~AlreadyInstalled(Last(hist).before)
    /\ frag # <<>>
    /\ css[Last(hist).dir] = Last(hist).after

\* C5: no step of install_custom_css or remove_custom_css takes a custom.css
\* with at most one start and one end sentinel line to one with more.
C5_AtMostOneBlock ==
    [][\A d \in Dirs : AtMostOneBlock(css[d]) => AtMostOneBlock(css'[d])]_vars

\* C5 witness: an install has spliced a block in and a remove has taken it
\* out again.
C5_Witness ==
    /\ Len(hist) >= 2 /\ pc = "idle"
    /\ Returned(hist[Len(hist) - 1], "install")
    /\ AtMostOneBlock(hist[Len(hist) - 1].before)
    /\ NumLines(hist[Len(hist) - 1].after, IsStart) = 1
    /\ NumLines(hist[Len(hist) - 1].after, IsEnd) = 1
    /\ Returned(Last(hist), "remove")
    /\ NumLines(css[Last(hist).dir], IsStart) = 0

\* The lines outside every start/end pair: a start sentinel line with a
\* later end sentinel line is dropped with everything up to that end line.
RECURSIVE FirstEnd(_, _)
FirstEnd(ls, i) ==
    IF i > Len(ls) THEN 0 ELSE IF IsEnd(ls[i]) THEN i ELSE FirstEnd(ls, i + 1)
RECURSIVE OutsidePairs(_)
OutsidePairs(ls) ==
    IF ls = <<>> THEN <<>>
    ELSE IF IsStart(Head(ls)) /\ FirstEnd(ls, 2) > 0
         THEN OutsidePairs(SubSeq(ls, FirstEnd(ls, 2) + 1, Len(ls)))
         ELSE <<Head(ls)>> \o OutsidePairs(Tail(ls))

\* C6 (as claimed): remove_custom_css deletes exactly the lines of the
\* start/end pairs and writes every other line through, in order.
C6_RemoveDeletesExactlyPairs ==
    \A i \in 1..Len(hist) :
        Returned(hist[i], "remove")
        => ReadLines(hist[i].after) = OutsidePairs(ReadLines(hist[i].before))

InstallResult(b) == Encode(StartLine \o frag \o EndLine \o TextOf(b))

\* C7: inside a call custom.css holds its content from before the call; the
\* only step that changes it is the rename, which puts the complete new
\* content in place.
C7_CrashAtomic ==
    [][/\ pc' \in {"i_open", "i_write", "i_copy", "i_rename", "r_scan", "r_finish"}
          => css'[dir'] = before'
       /\ \A d \in Dirs :
            \/ css'[d] = css[d]
            \/ /\ d = dir /\ pc = "i_rename" /\ pc' # "i_rename"
               /\ css'[d] = InstallResult(before)
            \/ /\ d = dir /\ pc = "r_finish" /\ pc' # "r_finish"
               /\ css'[d] = RemoveScanResult(before).out]_vars

\* C7 witness: a call was interrupted with the scratch file partly written
\* and custom.css as it was before the call.
C7_Witness ==
    /\ hist # <<>> /\ pc = "idle"
    /\ Last(hist).outcome = "crash" /\ Last(hist).op = "install"
    /\ scratch[Last(hist).dir] \notin {Absent, <<>>}
    /\ scratch[Last(hist).dir] # InstallResult(Last(hist).before)
    /\ css[Last(hist).dir] = Last(hist).before
    /\ Last(hist).before \notin {Absent, <<>>}

Failures(r) == Cardinality({i \in 1..Len(r) : r[i] = "failed"})

\* C8: install_kernel_resources never raises; every failing copy is logged,
\* the loop goes on to the next file, and on return every file was tried
\* and each one whose copy succeeded is in the destination directory.
C8_BestEffort ==
    /\ rpc # "raised"
    /\ rpc \in {"loop", "returned"} => /\ Len(results) = idx - 1
                                       /\ Len(errlog) = Failures(results)
    /\ rpc = "returned"
         => /\ Len(results) = Len(files)
            /\ \A i \in 1..Len(files) : results[i] = "ok" => dest[files[i]] = "new"
            /\ \A i \in 1..Len(files) :
                 results[i] = "failed" => \E j \in 1..Len(errlog) : errlog[j] = files[i]

\* C8 witness: the first copy failed, the second succeeded, the call returned.
C8_Witness ==
    /\ rpc = "returned" /\ Len(files) = 2
    /\ results = <<"failed", "ok">>
    /\ dest[files[2]] = "new"

\* C9 (as claimed): after the install command spliced the block into the
\* custom.css of a scope, the remove command leaves that file without it.
C9_RemoveUndoesInstall ==
    cmd = "none" /\ pc = "idle" /\ Len(done) = 2
    /\ done[1].cmd = "install" /\ done[1].spliced /\ done[2].cmd = "remove"
    => ~HasBlock(css[done[1].scope])

\* C10 (as claimed): once a call has returned or raised, no custom.css-new
\* is left in the directory.
C10_NoScratchLeft ==
    pc = "idle" /\ hist # <<>> /\ Last(hist).outcome \in {"return", "raise"}
    => scratch[Last(hist).dir] = Absent
====
